---- MODULE Spec2Model ----
(***************************************************************************)
(* A model of the HTML-to-Markdown plugin tool (tools/html_to_markdown.py). *)
(*                                                                         *)
(* Text is a sequence of one-character strings, so that the routines'      *)
(* regular expressions and string calls act on characters exactly as the   *)
(* Python code does.  Python's None is the one-element sequence None,      *)
(* whose element is no character.                                          *)
(***************************************************************************)
EXTENDS Integers, Sequences, FiniteSets, TLC

VARIABLES
    \* the dispatcher (_invoke), one request after the other
    pc,               \* "idle" | "yielded_json" | "yielded_last" | "done" | "crashed"
    tool_parameters,  \* the request's parameter dictionary
    calls,            \* the conversion routines invoked for this request, in order
    messages,         \* the messages the generator has yielded for this request
    result,           \* the record the routine returned (NoResult before)
    disk,             \* the temporary files that exist on disk
    requests,         \* the number of requests started
    outcomes,         \* what the library and file calls of this request did
    \* the regex-only routine run on its own output
    html_content,     \* the input text
    simple_pc,        \* "idle" | "input" | "pass1" | "pass2"
    content1,         \* the content of the first pass
    content2,         \* the content of the second pass
    \* the style-preserving routine's post-processing loop
    md_pc,            \* "idle" | "filter" | "done"
    lines,            \* result.split("\n") of the converted text
    idx,              \* the index of the next line of the for loop
    skip_block,
    cleaned_lines,
    md_result,        \* the routine's content (None before the cleanup)
    \* the tree routine and the regex-only routine on one document
    tokens,           \* the document's tags and text, in order
    soup_pc,          \* "idle" | "input" | "done"
    soup_result,      \* the record _extract_with_beautifulsoup returned
    \* the document converter's routine after the converter has returned or failed
    pandoc_pc,        \* "idle" | "converted" | "failed" | "done"
    markdown_content, \* the converter's output
    fallback_text,    \* soup.get_text() of the fallback
    pandoc_result,    \* the record _extract_with_pandoc returned
    \* the regex-only routine, one string operation after the other
    step,             \* the index of the next operation (0 when idle)
    step_content      \* the content so far

dispatch_vars ==
    <<pc, tool_parameters, calls, messages, result, disk, requests, outcomes>>
simple_vars == <<html_content, simple_pc, content1, content2>>
md_vars == <<md_pc, lines, idx, skip_block, cleaned_lines, md_result>>
soup_vars == <<tokens, soup_pc, soup_result>>
pandoc_vars == <<pandoc_pc, markdown_content, fallback_text, pandoc_result>>
step_vars == <<step, step_content>>
vars == <<dispatch_vars, simple_vars, md_vars, soup_vars, pandoc_vars, step_vars>>

(***************************************************************************)
(* Python values and string primitives                                     *)
(***************************************************************************)
None == <<"None">>

\* the backquote character, which a TLA+ string cannot hold
Backquote == "BACKQUOTE"

Min(S) == CHOOSE x \in S : \A y \in S : x <= y
Max(S) == CHOOSE x \in S : \A y \in S : x >= y

\* Op(x) with x evaluated once, as a Python local variable is
Bind(x, Op(_)) == CHOOSE r \in {Op(v) : v \in {x}} : TRUE

\* str.isspace() on the characters the model draws
IsSpace(c) == c \in {" ", "\n", "\t"}

\* re.IGNORECASE folds the case of the ASCII letters
Uppers == <<"A", "B", "C", "D", "E", "F", "G", "H", "I", "J", "K", "L", "M",
            "N", "O", "P", "Q", "R", "S", "T", "U", "V", "W", "X", "Y", "Z">>
Lowers == <<"a", "b", "c", "d", "e", "f", "g", "h", "i", "j", "k", "l", "m",
            "n", "o", "p", "q", "r", "s", "t", "u", "v", "w", "x", "y", "z">>
ToLower == [c \in {Uppers[i] : i \in 1..26} |->
               Lowers[CHOOSE i \in 1..26 : Uppers[i] = c]]
Lower(c) == IF c \in DOMAIN ToLower THEN ToLower[c] ELSE c

\* the literal lit stands at position i of s
MatchAt(s, i, lit) ==
    /\ i >= 1
    /\ i + Len(lit) - 1 <= Len(s)
    /\ \A k \in 1..Len(lit) : s[i + k - 1] = lit[k]

\* the same under re.IGNORECASE
MatchAtCI(s, i, lit) ==
    /\ i >= 1
    /\ i + Len(lit) - 1 <= Len(s)
    /\ \A k \in 1..Len(lit) : Lower(s[i + k - 1]) = Lower(lit[k])

\* the first position >= from where lit stands, 0 when there is none
FirstAt(s, from, lit) ==
    LET S == {i \in from..(Len(s) - Len(lit) + 1) : MatchAt(s, i, lit)}
    IN  IF S = {} THEN 0 ELSE Min(S)

FirstAtCI(s, from, lit) ==
    LET S == {i \in from..(Len(s) - Len(lit) + 1) : MatchAtCI(s, i, lit)}
    IN  IF S = {} THEN 0 ELSE Min(S)

\* the Python test: sub in s
Contains(s, sub) == FirstAt(s, 1, sub) # 0

Tail2(s, n) == SubSeq(s, n, Len(s))

\* str.replace(old, new): every non-overlapping occurrence, left to right
RECURSIVE Replace(_, _, _)
Replace(s, old, new) ==
    LET p == FirstAt(s, 1, old)
    IN  IF p = 0 THEN s
        ELSE SubSeq(s, 1, p - 1) \o new \o Replace(Tail2(s, p + Len(old)), old, new)

\* str.strip()
Strip(s) ==
    LET K == {i \in 1..Len(s) : ~IsSpace(s[i])}
    IN  IF K = {} THEN <<>> ELSE SubSeq(s, Min(K), Max(K))

\* the end of the run of c that starts at position i
RunEnd(s, i, c) ==
    LET S == {j \in i..Len(s) : s[j] # c}
    IN  IF S = {} THEN Len(s) ELSE Min(S) - 1

\* the end of the run of characters other than a backquote that starts at i
\* (i - 1 when the run is empty)
RunEndNot(s, i) ==
    LET S == {j \in i..Len(s) : s[j] = Backquote}
    IN  IF S = {} THEN Len(s) ELSE Min(S) - 1

\* re.sub of a run of at least n characters c by repl:
\* r"\n\n\n+" is (3, "\n"), r"  +" is (2, " "), r" +" is (1, " ")
RECURSIVE SubRuns(_, _, _, _)
SubRuns(s, c, n, repl) ==
    LET S == {i \in 1..Len(s) : RunEnd(s, i, c) - i + 1 >= n}
    IN  IF S = {} THEN s
        ELSE LET i == Min(S)
             IN  SubSeq(s, 1, i - 1) \o repl
                    \o SubRuns(Tail2(s, RunEnd(s, i, c) + 1), c, n, repl)

(***************************************************************************)
(* The regular expressions of the regex-only routine.  A match is the      *)
(* record of its positions; NoMatch when the pattern does not match at i.  *)
(***************************************************************************)
NoMatch == [ok |-> FALSE, gs |-> 0, ge |-> 0, hs |-> 0, he |-> 0, end |-> 0]

GT == <<">">>
NL == <<"\n">>
CloseTag(name) == <<"<", "/">> \o name \o GT

\* <name[^>]*>(.*?)</name> at position i: the opening tag runs to the first
\* '>', the group to the first closing tag after it
PairAt(s, i, name) ==
    IF ~(MatchAt(s, i, <<"<">>) /\ MatchAtCI(s, i + 1, name)) THEN NoMatch
    ELSE LET gt == FirstAt(s, i + 1 + Len(name), GT)
         IN  IF gt = 0 THEN NoMatch
             ELSE LET cl == FirstAtCI(s, gt + 1, CloseTag(name))
                  IN  IF cl = 0 THEN NoMatch
                      ELSE [ok |-> TRUE, gs |-> gt + 1, ge |-> cl - 1,
                            hs |-> 0, he |-> 0, end |-> cl + Len(name) + 2]

\* <(n1|n2)[^>]*>(.*?)</\1> at position i: the alternatives in their order
AltPairAt(s, i, names) ==
    LET K == {k \in 1..Len(names) : PairAt(s, i, names[k]).ok}
    IN  IF K = {} THEN NoMatch ELSE PairAt(s, i, names[Min(K)])

Quotes == {"\"", "'"}
HREF == <<"h", "r", "e", "f", "=">>

\* <a[^>]*href=["']([^"']*)["'][^>]*>(.*?)</a> with href= at position p
AnchorWith(s, i, p) ==
    IF ~(p + 5 <= Len(s) /\ s[p + 5] \in Quotes) THEN NoMatch
    ELSE LET Q  == {q \in (p + 6)..Len(s) : s[q] \in Quotes}
         IN  IF Q = {} THEN NoMatch
             ELSE LET q2 == Min(Q)
                      gt == FirstAt(s, q2 + 1, GT)
                  IN  IF gt = 0 THEN NoMatch
                      ELSE LET cl == FirstAtCI(s, gt + 1, CloseTag(<<"a">>))
                           IN  IF cl = 0 THEN NoMatch
                               ELSE [ok |-> TRUE, gs |-> gt + 1, ge |-> cl - 1,
                                     hs |-> p + 6, he |-> q2 - 1, end |-> cl + 3]

\* the anchor pattern at position i: the first [^>]* is greedy, so the last
\* href= of the run of non-'>' characters that completes a match is taken
AnchorAt(s, i) ==
    IF ~(MatchAt(s, i, <<"<">>) /\ MatchAtCI(s, i + 1, <<"a">>)) THEN NoMatch
    ELSE LET g == FirstAt(s, i + 2, GT)
             R == IF g = 0 THEN Len(s) + 1 ELSE g
             P == {p \in (i + 2)..(R - 5) :
                      MatchAtCI(s, p, HREF) /\ AnchorWith(s, i, p).ok}
         IN  IF P = {} THEN NoMatch ELSE AnchorWith(s, i, Max(P))

\* <br[^>]*/?> at position i
BrAt(s, i) ==
    IF ~(MatchAt(s, i, <<"<">>) /\ MatchAtCI(s, i + 1, <<"b", "r">>)) THEN NoMatch
    ELSE LET gt == FirstAt(s, i + 3, GT)
         IN  IF gt = 0 THEN NoMatch
             ELSE [NoMatch EXCEPT !.ok = TRUE, !.end = gt]

\* a variant of AnyTagAt for <[^/>][^>]*>, which leaves the closing tags
AnyTagOpeningAt(s, i) ==
    IF ~(MatchAt(s, i, <<"<">>) /\ i + 1 <= Len(s) /\ s[i + 1] \notin {">", "/"})
    THEN NoMatch
    ELSE LET gt == FirstAt(s, i + 2, GT)
         IN  IF gt = 0 THEN NoMatch
             ELSE [NoMatch EXCEPT !.ok = TRUE, !.end = gt]

\* <[^>]+> at position i
AnyTagAt(s, i) ==
    IF ~(MatchAt(s, i, <<"<">>) /\ i + 1 <= Len(s) /\ s[i + 1] # ">") THEN NoMatch
    ELSE LET gt == FirstAt(s, i + 2, GT)
         IN  IF gt = 0 THEN NoMatch
             ELSE [NoMatch EXCEPT !.ok = TRUE, !.end = gt]

Group(s, m) == SubSeq(s, m.gs, m.ge)
Href(s, m) == SubSeq(s, m.hs, m.he)

\* re.sub(r'<(n1|n2)[^>]*>(.*?)</\1>', pre + group + post) when keep,
\* and by the empty string otherwise
RECURSIVE SubPairs(_, _, _, _, _)
SubPairs(s, names, pre, post, keep) ==
    LET S == {i \in 1..Len(s) : AltPairAt(s, i, names).ok}
    IN  IF S = {} THEN s
        ELSE LET i == Min(S)
                 m == AltPairAt(s, i, names)
             IN  SubSeq(s, 1, i - 1)
                    \o (IF keep THEN pre \o Group(s, m) \o post ELSE <<>>)
                    \o SubPairs(Tail2(s, m.end + 1), names, pre, post, keep)

\* re.sub of the anchor pattern by r'[\2](\1)'
RECURSIVE SubAnchors(_)
SubAnchors(s) ==
    LET S == {i \in 1..Len(s) : AnchorAt(s, i).ok}
    IN  IF S = {} THEN s
        ELSE LET i == Min(S)
                 m == AnchorAt(s, i)
             IN  SubSeq(s, 1, i - 1)
                    \o <<"[">> \o Group(s, m) \o <<"]", "(">> \o Href(s, m) \o <<")">>
                    \o SubAnchors(Tail2(s, m.end + 1))

\* re.sub(r'<br[^>]*/?>', '\n')
RECURSIVE SubBr(_)
SubBr(s) ==
    LET S == {i \in 1..Len(s) : BrAt(s, i).ok}
    IN  IF S = {} THEN s
        ELSE LET i == Min(S)
             IN  SubSeq(s, 1, i - 1) \o <<"\n">> \o SubBr(Tail2(s, BrAt(s, i).end + 1))

\* re.sub(r'<[^>]+>', '')
RECURSIVE SubAnyTag(_)
SubAnyTag(s) ==
    LET S == {i \in 1..Len(s) : AnyTagAt(s, i).ok}
    IN  IF S = {} THEN s
        ELSE LET i == Min(S)
             IN  SubSeq(s, 1, i - 1) \o SubAnyTag(Tail2(s, AnyTagAt(s, i).end + 1))

(***************************************************************************)
(* _extract_with_simple: the regex-only routine                            *)
(***************************************************************************)
Hashes(n) == [k \in 1..n |-> "#"]
HeadingName(n) == <<"h", <<"1", "2", "3", "4", "5", "6">>[n]>>

STRONG == <<"s", "t", "r", "o", "n", "g">>
SCRIPT == <<"s", "c", "r", "i", "p", "t">>
STYLE == <<"s", "t", "y", "l", "e">>
TITLE == <<"t", "i", "t", "l", "e">>
CODE == <<"c", "o", "d", "e">>
PRE == <<"p", "r", "e">>
FENCE == <<Backquote, Backquote, Backquote>>

FUNCTION_ == <<"f", "u", "n", "c", "t", "i", "o", "n", "(">>

\* ```<label>.*?``` at position i: the block runs to the first fence after
\* the label
FenceAt(s, i, label) ==
    IF ~MatchAt(s, i, FENCE \o label) THEN 0
    ELSE LET cl == FirstAt(s, i + 3 + Len(label), FENCE)
         IN  IF cl = 0 THEN 0 ELSE cl + 2

\* ```[^`]*function\(.*?``` at position i: function( stands in or right
\* after the run of characters other than a backquote that follows the fence
FunctionFenceAt(s, i) ==
    IF ~MatchAt(s, i, FENCE) THEN 0
    ELSE LET run == RunEndNot(s, i + 3)
             P == {p \in (i + 3)..(run + 1) : MatchAt(s, p, FUNCTION_)}
         IN  IF P = {} THEN 0
             ELSE LET cl == FirstAt(s, Max(P) + Len(FUNCTION_), FENCE)
                  IN  IF cl = 0 THEN 0 ELSE cl + 2

\* re.sub(r"```label.*?```", "", s, flags=re.DOTALL)
RECURSIVE SubFence(_, _)
SubFence(s, label) ==
    LET S == {i \in 1..Len(s) : FenceAt(s, i, label) # 0}
    IN  IF S = {} THEN s
        ELSE LET i == Min(S)
             IN  SubSeq(s, 1, i - 1) \o SubFence(Tail2(s, FenceAt(s, i, label) + 1), label)

\* re.sub(r"```[^`]*function\(.*?```", "", s, flags=re.DOTALL)
RECURSIVE SubFunctionFence(_)
SubFunctionFence(s) ==
    LET S == {i \in 1..Len(s) : FunctionFenceAt(s, i) # 0}
    IN  IF S = {} THEN s
        ELSE LET i == Min(S)
             IN  SubSeq(s, 1, i - 1)
                    \o SubFunctionFence(Tail2(s, FunctionFenceAt(s, i) + 1))

JAVASCRIPT == <<"j", "a", "v", "a", "s", "c", "r", "i", "p", "t">>
JS == <<"j", "s">>

\* one string operation of a routine, as a record: a re.sub of a pair of
\* tags by pre + group + post (or by nothing), of the anchor, of the line
\* break, of any tag, of a fenced block, of a run of a character; a
\* str.replace; a str.strip
NoOp == [kind |-> "none", names |-> <<>>, pre |-> <<>>, post |-> <<>>, keep |-> TRUE,
         old |-> <<>>, new |-> <<>>, char |-> " ", count |-> 1]
Pair(names, pre, post) ==
    [NoOp EXCEPT !.kind = "pair", !.names = names, !.pre = pre, !.post = post]
Remove(name) == [NoOp EXCEPT !.kind = "pair", !.names = << name >>, !.keep = FALSE]
Anchor == [NoOp EXCEPT !.kind = "anchor"]
Break == [NoOp EXCEPT !.kind = "br"]
AnyTag == [NoOp EXCEPT !.kind = "anytag"]
ReplaceAll(old, new) == [NoOp EXCEPT !.kind = "replace", !.old = old, !.new = new]
Runs(c, n, repl) == [NoOp EXCEPT !.kind = "runs", !.char = c, !.count = n, !.new = repl]
StripEnds == [NoOp EXCEPT !.kind = "strip"]
Fenced(label) == [NoOp EXCEPT !.kind = "fence", !.old = label]
FunctionFenced == [NoOp EXCEPT !.kind = "functionfence"]

Heading(n) == Pair(<< HeadingName(n) >>, Hashes(n) \o <<" ">>, <<"\n">>)

\* re.sub(r"\n\n\n+", "\n\n", s) and re.sub(r"  +", " ", s)
CollapseNewlines == Runs("\n", 3, <<"\n", "\n">>)
CollapseSpaces == Runs(" ", 2, <<" ">>)

\* the string operations of _extract_with_simple on the content, in their
\* order: the substitutions that turn elements into Markdown, the removal of
\* the remaining tags, the six entities, the whitespace
SimpleOperations == <<
    Remove(SCRIPT),
    Remove(STYLE),
    Heading(1), Heading(2), Heading(3), Heading(4), Heading(5), Heading(6),
    Pair(<< STRONG, <<"b">> >>, <<"*", "*">>, <<"*", "*">>),
    Pair(<< <<"e", "m">>, <<"i">> >>, <<"*">>, <<"*">>),
    Pair(<< CODE >>, <<Backquote>>, <<Backquote>>),
    Pair(<< PRE >>, FENCE \o <<"\n">>, <<"\n">> \o FENCE \o <<"\n">>),
    Anchor,
    Pair(<< <<"p">> >>, <<>>, <<"\n", "\n">>),
    Break,
    Pair(<< <<"l", "i">> >>, <<"-", " ">>, <<"\n">>),
    AnyTag,
    ReplaceAll(<<"&", "n", "b", "s", "p", ";">>, <<" ">>),
    ReplaceAll(<<"&", "a", "m", "p", ";">>, <<"&">>),
    ReplaceAll(<<"&", "l", "t", ";">>, <<"<">>),
    ReplaceAll(<<"&", "g", "t", ";">>, <<">">>),
    ReplaceAll(<<"&", "q", "u", "o", "t", ";">>, <<"\"">>),
    ReplaceAll(<<"&", "#", "3", "9", ";">>, <<"'">>),
    CollapseNewlines,
    CollapseSpaces,
    StripEnds >>

\* the result of one string operation on s
Apply(s, op) ==
    CASE op.kind = "pair" -> SubPairs(s, op.names, op.pre, op.post, op.keep)
      [] op.kind = "anchor" -> SubAnchors(s)
      [] op.kind = "br" -> SubBr(s)
      [] op.kind = "anytag" -> SubAnyTag(s)
      [] op.kind = "replace" -> Replace(s, op.old, op.new)
      [] op.kind = "runs" -> SubRuns(s, op.char, op.count, op.new)
      [] op.kind = "strip" -> Strip(s)
      [] op.kind = "fence" -> SubFence(s, op.old)
      [] op.kind = "functionfence" -> SubFunctionFence(s)

\* the operations ops[k], ops[k + 1], ... applied to s one after the other
RECURSIVE ApplyFrom(_, _, _)
ApplyFrom(s, ops, k) ==
    IF k > Len(ops) THEN s
    ELSE Bind(Apply(s, ops[k]), LAMBDA t : ApplyFrom(t, ops, k + 1))

\* the content of _extract_with_simple for a text html
SimpleContent(html) == ApplyFrom(html, SimpleOperations, 1)

\* re.search(r'<title[^>]*>(.*?)</title>').group(1).strip(), or None
SimpleTitle(html) ==
    LET S == {i \in 1..Len(html) : PairAt(html, i, TITLE).ok}
    IN  IF S = {} THEN None ELSE Strip(Group(html, PairAt(html, Min(S), TITLE)))

(***************************************************************************)
(* Lines: str.split("\n"), str.join, str.splitlines, str.rstrip            *)
(***************************************************************************)
RECURSIVE Split(_)
Split(s) ==
    LET p == FirstAt(s, 1, NL)
    IN  IF p = 0 THEN <<s>> ELSE <<SubSeq(s, 1, p - 1)>> \o Split(Tail2(s, p + 1))

RECURSIVE Join(_, _)
Join(ls, sep) ==
    IF ls = <<>> THEN <<>>
    ELSE IF Len(ls) = 1 THEN ls[1]
    ELSE ls[1] \o sep \o Join(Tail(ls), sep)

\* str.splitlines(): no line for an empty text, none after a final newline
SplitLines(s) ==
    IF s = <<>> THEN <<>>
    ELSE LET ls == Split(s)
         IN  IF ls[Len(ls)] = <<>> THEN SubSeq(ls, 1, Len(ls) - 1) ELSE ls

\* str.rstrip(chars)
RStrip(s, chars) ==
    LET K == {i \in 1..Len(s) : s[i] \notin chars}
    IN  IF K = {} THEN <<>> ELSE SubSeq(s, 1, Max(K))

\* `not line.strip()`
IsBlank(line) == Strip(line) = <<>>

(***************************************************************************)
(* _extract_with_markdownify: the post-processing of the converted text    *)
(***************************************************************************)
\* the fifteen substrings of a line that looks like JavaScript code
JsPatterns == <<
    FUNCTION_,
    <<"&", "&">>,
    <<"|", "|">>,
    <<"=", "=", "=">>,
    <<"!", "=", "=">>,
    <<"t", "y", "p", "e", "o", "f">>,
    <<"u", "n", "d", "e", "f", "i", "n", "e", "d">>,
    <<".", "p", "r", "o", "t", "o", "t", "y", "p", "e", ".">>,
    <<"r", "e", "t", "u", "r", "n">>,
    <<"v", "a", "r", " ">>,
    <<"l", "e", "t", " ">>,
    <<"c", "o", "n", "s", "t", " ">>,
    <<"}", ".", "b", "i", "n", "d", "(">>,
    <<".", "c", "a", "l", "l", "(">>,
    <<".", "a", "p", "p", "l", "y", "(">> >>

\* any(js_pattern in line for js_pattern in [...])
LooksLikeJs(line) ==
    \E i \in 1..Len(line) : \E k \in 1..Len(JsPatterns) : MatchAt(line, i, JsPatterns[k])

\* the length above which a line is taken for minified code
LongLine == 500

\* a variant of IsSkipped without the test of the length
IsSkippedJsOnly(line) == LooksLikeJs(line)

\* the line is skipped by one of the two `continue` branches, which both set
\* skip_block (the length is tested first here: the branches do the same)
IsSkipped(line) == Len(line) > LongLine \/ LooksLikeJs(line)

\* a variant of FilterStep that does not reset skip_block on a blank line
FilterStepNoReset(st, line) ==
    IF IsSkipped(line)
    THEN [st EXCEPT !.skip_block = TRUE]
    ELSE [skip_block |-> st.skip_block,
          cleaned_lines |-> IF ~st.skip_block THEN Append(st.cleaned_lines, line)
                            ELSE st.cleaned_lines]

\* one iteration of the for loop over lines, on the loop's state
\* st = [skip_block, cleaned_lines]
FilterStep(st, line) ==
    IF IsSkipped(line)
    THEN [st EXCEPT !.skip_block = TRUE]
    ELSE LET skip == IF IsBlank(line) THEN FALSE ELSE st.skip_block
         IN  [skip_block |-> skip,
              cleaned_lines |-> IF ~skip THEN Append(st.cleaned_lines, line)
                                ELSE st.cleaned_lines]

FilterInit == [skip_block |-> FALSE, cleaned_lines |-> <<>>]

RECURSIVE FilterFrom(_, _, _)
FilterFrom(st, ls, i) ==
    IF i > Len(ls) THEN st ELSE FilterFrom(FilterStep(st, ls[i]), ls, i + 1)

\* the string operations after the join: the three fence substitutions and
\* the collapse of three or more newlines
MarkdownifyOperations ==
    <<Fenced(JAVASCRIPT), Fenced(JS), FunctionFenced, CollapseNewlines>>

\* the cleanup after the loop
MarkdownifyCleanup(kept) == ApplyFrom(Join(kept, NL), MarkdownifyOperations, 1)

\* the content of _extract_with_markdownify for the text markdownify returned
MarkdownifyContent(converted) ==
    MarkdownifyCleanup(FilterFrom(FilterInit, Split(converted), 1).cleaned_lines)

(***************************************************************************)
(* _extract_with_pandoc: the post-processing of the converter's output and *)
(* the fallback's text extraction                                          *)
(***************************************************************************)
BACKSLASH == <<"\\">>

\* a variant of PandocLineStep that does not trim the line
PandocLineStepUntrimmed(cleaned, line) ==
    IF Strip(line) = BACKSLASH THEN cleaned
    ELSE IF IsBlank(line)
         THEN IF cleaned # <<>> /\ ~IsBlank(cleaned[Len(cleaned)])
              THEN Append(cleaned, <<>>)
              ELSE cleaned
         ELSE Append(cleaned, line)

\* one iteration of the first loop over lines, on cleaned_lines
PandocLineStep(cleaned, line) ==
    IF Strip(line) = BACKSLASH THEN cleaned
    ELSE LET cleaned_line == RStrip(line, {" ", "\\"})
         IN  IF IsBlank(cleaned_line)
             THEN IF cleaned # <<>> /\ ~IsBlank(cleaned[Len(cleaned)])
                  THEN Append(cleaned, <<>>)
                  ELSE cleaned
             ELSE Append(cleaned, cleaned_line)

RECURSIVE PandocLines(_, _, _)
PandocLines(cleaned, ls, i) ==
    IF i > Len(ls) THEN cleaned
    ELSE PandocLines(PandocLineStep(cleaned, ls[i]), ls, i + 1)

\* the second loop: final_lines, without an empty line after an empty line
RECURSIVE PandocFinalLines(_, _, _, _)
PandocFinalLines(final, prev_empty, ls, i) ==
    IF i > Len(ls) THEN final
    ELSE LET is_empty == IsBlank(ls[i])
         IN  IF is_empty /\ prev_empty
             THEN PandocFinalLines(final, prev_empty, ls, i + 1)
             ELSE PandocFinalLines(Append(final, ls[i]), is_empty, ls, i + 1)

\* a variant of PandocOperations that leaves the escaped spaces
PandocOperationsKeepEscapes == <<
    ReplaceAll(<<"\\", "\n">>, NL),
    Runs(" ", 1, <<" ">>),
    CollapseNewlines >>

\* the string operations after the join of final_lines
PandocOperations == <<
    ReplaceAll(<<"\\", "\n">>, NL),
    ReplaceAll(<<"\\", " ">>, <<" ">>),
    Runs(" ", 1, <<" ">>),
    CollapseNewlines >>

\* final_lines for the lines of the converter's output
PandocFinal(ls) == PandocFinalLines(<<>>, FALSE, PandocLines(<<>>, ls, 1), 1)

\* the content of the success path for the text the converter returned
PandocContent(converted) ==
    ApplyFrom(Join(PandocFinal(Split(converted)), NL), PandocOperations, 1)

\* the number of lines the fallback keeps
FallbackLines == 50

\* [line.strip() for line in text.splitlines() if line.strip()]
RECURSIVE NonBlankLines(_, _)
NonBlankLines(ls, i) ==
    IF i > Len(ls) THEN <<>>
    ELSE (IF IsBlank(ls[i]) THEN <<>> ELSE <<Strip(ls[i])>>) \o NonBlankLines(ls, i + 1)

\* a variant of FallbackContent that keeps every line
FallbackContentUncapped(text_content) ==
    Join(NonBlankLines(SplitLines(text_content), 1), <<"\n", "\n">>)

\* the content of the fallback for the text soup.get_text() returned
FallbackContent(text_content) ==
    LET ls == NonBlankLines(SplitLines(text_content), 1)
    IN  Join(SubSeq(ls, 1, Min({Len(ls), FallbackLines})), <<"\n", "\n">>)

\* the cleanup of the text soup.get_text() returned in
\* _extract_with_beautifulsoup
SoupOperations == <<CollapseNewlines, CollapseSpaces, StripEnds>>
SoupContent(text) == ApplyFrom(text, SoupOperations, 1)

(***************************************************************************)
(* The DOM-based routine's tree.  BeautifulSoup(html_content,              *)
(* "html.parser") returns a tree of elements and strings; a node is        *)
(* [name, text, href, children], a string having the empty name and an     *)
(* element its tag name, its href attribute (None without one) and its     *)
(* children in document order.  The root is the soup object itself.        *)
(***************************************************************************)
TextNode(t) == [name |-> <<>>, text |-> t, href |-> None, children |-> <<>>]
Element(name, href, children) ==
    [name |-> name, text |-> <<>>, href |-> href, children |-> children]

\* the strings below the nodes ns[k], ns[k + 1], ..., concatenated
RECURSIVE GetTextFrom(_, _)
GetTextFrom(ns, k) ==
    IF k > Len(ns) THEN <<>>
    ELSE (IF ns[k].name = <<>> THEN ns[k].text ELSE GetTextFrom(ns[k].children, 1))
            \o GetTextFrom(ns, k + 1)

\* tag.get_text()
get_text(tag) == GetTextFrom(<< tag >>, 1)

\* find_all(name) below the nodes ns[k], ...: the elements of that name in
\* document order, the nested ones included
RECURSIVE FindAllFrom(_, _, _)
FindAllFrom(ns, k, name) ==
    IF k > Len(ns) THEN <<>>
    ELSE (IF ns[k].name = name THEN << ns[k] >> ELSE <<>>)
            \o FindAllFrom(ns[k].children, 1, name)
            \o FindAllFrom(ns, k + 1, name)

\* str(i) for a list item's number
RECURSIVE Decimal(_)
Decimal(n) ==
    IF n < 10 THEN << <<"0", "1", "2", "3", "4", "5", "6", "7", "8", "9">>[n + 1] >>
    ELSE Decimal(n \div 10) \o Decimal(n % 10)

\* the lines "- text" or "i. text" of the li elements lis[k], ...
RECURSIVE ListItems(_, _, _)
ListItems(lis, k, ordered) ==
    IF k > Len(lis) THEN <<>>
    ELSE << (IF ordered THEN Decimal(k) \o <<".", " ">> ELSE <<"-", " ">>)
                \o Strip(get_text(lis[k])) >>
            \o ListItems(lis, k + 1, ordered)

\* the loops of the routine, one record each: the names find_all looks for,
\* and what the loop does with an element it finds
NoLoop == [kind |-> "none", names |-> {}, pre |-> <<>>, post |-> <<>>,
           strip |-> FALSE, unless_empty |-> FALSE, ordered |-> FALSE]
Decompose(names) == [NoLoop EXCEPT !.kind = "decompose", !.names = names]
Wrap(names, pre, post) ==
    [NoLoop EXCEPT !.kind = "wrap", !.names = names, !.pre = pre, !.post = post]
HeaderAsParagraph(i) ==
    [Wrap({HeadingName(i)}, <<>>, <<"\n", "\n">>)
        EXCEPT !.strip = TRUE, !.unless_empty = TRUE]
Header(i) ==
    [Wrap({HeadingName(i)}, Hashes(i) \o <<" ">>, <<"\n", "\n">>)
        EXCEPT !.strip = TRUE, !.unless_empty = TRUE]
Links == [NoLoop EXCEPT !.kind = "link", !.names = {<<"a">>}, !.strip = TRUE,
                        !.unless_empty = TRUE]
List(name, ordered) == [NoLoop EXCEPT !.kind = "list", !.names = {name},
                                      !.ordered = ordered]
Paragraphs == [Wrap({<<"p">>}, <<>>, <<"\n", "\n">>) EXCEPT !.strip = TRUE]
LineBreaks == [NoLoop EXCEPT !.kind = "const", !.names = {<<"b", "r">>},
                             !.post = <<"\n">>]

\* the loop finds the element: its name is looked for, with an href for
\* find_all('a', href=True)
Found(loop, tag) ==
    /\ tag.name \in loop.names
    /\ loop.kind = "link" => tag.href # None

\* what the loop puts in the element's place: the replacement string, or the
\* element itself when it is left in the tree
Replacement(loop, tag) ==
    IF loop.kind = "const" THEN << TextNode(loop.post) >>
    ELSE IF loop.kind = "list"
    THEN << TextNode(Join(ListItems(FindAllFrom(tag.children, 1, <<"l", "i">>), 1,
                                    loop.ordered), NL) \o <<"\n", "\n">>) >>
    ELSE Bind(IF loop.strip THEN Strip(get_text(tag)) ELSE get_text(tag),
              LAMBDA t :
                IF loop.unless_empty /\ t = <<>> THEN << tag >>
                ELSE IF loop.kind = "link"
                THEN << TextNode(<<"[">> \o t \o <<"]", "(">> \o tag.href \o <<")">>) >>
                ELSE << TextNode(loop.pre \o t \o loop.post) >>)

\* one loop over the nodes ns[k], ...: every element find_all returned is
\* decomposed or replaced; an element inside a replaced one is no longer in
\* the tree when its turn comes
RECURSIVE LoopFrom(_, _, _)
LoopFrom(ns, k, loop) ==
    IF k > Len(ns) THEN <<>>
    ELSE (IF ns[k].name = <<>> THEN << ns[k] >>
          ELSE IF ~Found(loop, ns[k])
          THEN << [ns[k] EXCEPT !.children = LoopFrom(ns[k].children, 1, loop)] >>
          ELSE IF loop.kind = "decompose" THEN <<>>
          ELSE Bind(Replacement(loop, ns[k]),
                    LAMBDA r :
                      IF r = << ns[k] >>
                      THEN << [ns[k] EXCEPT
                                 !.children = LoopFrom(ns[k].children, 1, loop)] >>
                      ELSE r))
            \o LoopFrom(ns, k + 1, loop)

\* the loops in the order of the source
SoupLoops == <<
    Decompose({<<"s", "c", "r", "i", "p", "t">>, <<"s", "t", "y", "l", "e">>,
               <<"l", "i", "n", "k">>, <<"m", "e", "t", "a">>,
               <<"n", "o", "s", "c", "r", "i", "p", "t">>,
               <<"i", "f", "r", "a", "m", "e">>}),
    Header(1), Header(2), Header(3), Header(4), Header(5), Header(6),
    Wrap({STRONG, <<"b">>}, <<"*", "*">>, <<"*", "*">>),
    Wrap({<<"e", "m">>, <<"i">>}, <<"*">>, <<"*">>),
    Wrap({CODE}, << Backquote >>, << Backquote >>),
    Wrap({PRE}, FENCE \o NL, NL \o FENCE \o NL),
    Links,
    List(<<"u", "l">>, FALSE),
    List(<<"o", "l">>, TRUE),
    Paragraphs,
    LineBreaks >>

\* the loops loops[k], ... run on the soup one after the other
RECURSIVE LoopsFrom(_, _, _)
LoopsFrom(soup, loops, k) ==
    IF k > Len(loops) THEN soup
    ELSE Bind([soup EXCEPT !.children = LoopFrom(soup.children, 1, loops[k])],
              LAMBDA t : LoopsFrom(t, loops, k + 1))

\* soup.get_text() after the loops
SoupText(soup) == get_text(LoopsFrom(soup, SoupLoops, 1))

(***************************************************************************)
(* The parser, on a text given as its tokens: opening tags, closing tags   *)
(* and character data.  BeautifulSoup's html.parser builder keeps a stack  *)
(* of open elements; a closing tag closes the nearest open element of its  *)
(* name and those opened inside it, and is dropped when there is none.     *)
(***************************************************************************)
OpenTag(name) == [kind |-> "open", name |-> name, text |-> <<>>]
EndTag(name) == [kind |-> "close", name |-> name, text |-> <<>>]
Data(t) == [kind |-> "data", name |-> <<>>, text |-> t]

\* the token as it is written in html_content
Written(tok) ==
    IF tok.kind = "open" THEN <<"<">> \o tok.name \o GT
    ELSE IF tok.kind = "close" THEN CloseTag(tok.name)
    ELSE tok.text

\* the text of the tokens toks[k], ...
RECURSIVE WrittenFrom(_, _)
WrittenFrom(toks, k) ==
    IF k > Len(toks) THEN <<>> ELSE Written(toks[k]) \o WrittenFrom(toks, k + 1)

\* the elements that have no content and no closing tag
VoidElements == {<<"b", "r">>, <<"h", "r">>, <<"i", "m", "g">>,
                 <<"l", "i", "n", "k">>, <<"m", "e", "t", "a">>}

Document == Element(<<"[document]">>, None, <<>>)

\* the innermost open element is closed: it becomes the last child of the
\* element that holds it
PopTag(stack) ==
    [i \in 1..(Len(stack) - 1) |->
        IF i = Len(stack) - 1
        THEN [stack[i] EXCEPT !.children = Append(@, stack[Len(stack)])]
        ELSE stack[i]]

RECURSIVE PopToDepth(_, _)
PopToDepth(stack, depth) ==
    IF Len(stack) <= depth THEN stack ELSE PopToDepth(PopTag(stack), depth)

\* handle_starttag, handle_endtag and handle_data on the stack of open
\* elements
Feed(stack, tok) ==
    IF tok.kind = "data"
    THEN [stack EXCEPT ![Len(stack)].children = Append(@, TextNode(tok.text))]
    ELSE IF tok.kind = "open"
    THEN IF tok.name \in VoidElements
         THEN [stack EXCEPT ![Len(stack)].children =
                                Append(@, Element(tok.name, None, <<>>))]
         ELSE Append(stack, Element(tok.name, None, <<>>))
    ELSE LET K == {i \in 2..Len(stack) : stack[i].name = tok.name}
         IN  IF K = {} THEN stack ELSE PopToDepth(stack, Max(K) - 1)

RECURSIVE FeedFrom(_, _, _)
FeedFrom(stack, toks, k) ==
    IF k > Len(toks) THEN stack
    ELSE Bind(Feed(stack, toks[k]), LAMBDA st : FeedFrom(st, toks, k + 1))

\* BeautifulSoup(html_content, "html.parser") for the text of the tokens
Parse(toks) == PopToDepth(FeedFrom(<< Document >>, toks, 1), 1)[1]

(***************************************************************************)
(* Exceptions, library calls and result records                            *)
(*                                                                         *)
(* What a library call does is the environment's choice: it returns a      *)
(* value or raises.  An exception is [cls, text]; str(e) is its text, a    *)
(* sequence of message parts that may be empty.                            *)
(***************************************************************************)
NoExc == [cls |-> "none", text |-> <<>>]

\* the exceptions the environment raises; ValueError and OSError both derive
\* from Exception
Excs == {[cls |-> "ValueError", text |-> <<>>],
         [cls |-> "OSError", text |-> <<"Permission denied">>]}

TypeError == [cls |-> "TypeError", text |-> <<"expected string or bytes-like object">>]

\* isinstance(e, cls) for the classes above
IsInstance(e, cls) == cls = "Exception" \/ e.cls = cls

\* a call's outcome: the value it returned or the exception it raised
Ok(v) == [raised |-> FALSE, exc |-> NoExc, value |-> v]
Raised(e) == [raised |-> TRUE, exc |-> e, value |-> None]

\* a value that is not a string (the parameters are dict[str, Any])
NonStr == <<"int">>
IsStr(v) == v # None /\ v # NonStr

\* a variant of Truthy that tests only for None (if html_content is None)
TruthyNotNone(v) == v # None

\* Python's truth value of a parameter or of a content
Truthy(v) == v # None /\ v # <<>>

\* trafilatura.extract_metadata: no metadata, or metadata with its title
NoMetadata == [present |-> FALSE, title |-> None]
Metadata(t) == [present |-> TRUE, title |-> t]

\* time.time() - start_time of a routine that returned normally, and the
\* literal 0 of the failure records
Elapsed == "elapsed"
ZeroTime == "0"

NoResult == [content |-> None, title |-> None, processing_time |-> ZeroTime,
             success |-> FALSE, error |-> None, method |-> "none"]

\* the record of a routine's success path
Success(content, title, method) ==
    [content |-> content, title |-> title, processing_time |-> Elapsed,
     success |-> TRUE, error |-> None, method |-> method]

\* a variant of Failure that returns an empty text as its content
FailureEmptyContent(e, method) ==
    [content |-> <<>>, title |-> None, processing_time |-> ZeroTime,
     success |-> FALSE, error |-> e.text, method |-> method]

\* the record of a routine's except Exception as e handler
Failure(e, method) ==
    [content |-> None, title |-> None, processing_time |-> ZeroTime,
     success |-> FALSE, error |-> e.text, method |-> method]

\* a routine's outcome: the record it returned, or the exception it let through
Returned(rec) == [raised |-> FALSE, exc |-> NoExc, value |-> rec]
Propagated(e) == [raised |-> TRUE, exc |-> e, value |-> NoResult]

\* a variant of ExceptException whose handler is written except OSError
ExceptOSError(body, method) ==
    Bind(body, LAMBDA b : IF b.raised /\ IsInstance(b.exc, "OSError")
                          THEN Returned(Failure(b.exc, method))
                          ELSE b)

\* try: body / except Exception as e: return the failure record
ExceptException(body, method) ==
    Bind(body, LAMBDA b : IF b.raised /\ IsInstance(b.exc, "Exception")
                          THEN Returned(Failure(b.exc, method))
                          ELSE b)

(***************************************************************************)
(* The six conversion routines.  env holds the outcomes of the library     *)
(* calls of one invocation:                                                *)
(*   lib   the conversion call (trafilatura.extract, markdownify,          *)
(*         HTML2Text.handle, pypandoc.convert_file)                        *)
(*   meta  trafilatura.extract_metadata                                    *)
(*   soup  BeautifulSoup(html_content, "html.parser") and the title read   *)
(*         from it; a function of html_content, so one outcome per request *)
(*   text  soup.get_text()                                                 *)
(*   tmp, write, unlink1, unlink2  the temporary file's creation, the      *)
(*         write and close, and the two os.unlink calls                    *)
(***************************************************************************)
extract_with_trafilatura(html, env) ==
    LET body ==
            IF env.lib.raised THEN Propagated(env.lib.exc)
            ELSE IF env.meta.raised THEN Propagated(env.meta.exc)
            ELSE LET metadata == env.meta.value
                     rec(title) ==
                        [content |-> env.lib.value, metadata |-> metadata,
                         title |-> title, processing_time |-> Elapsed,
                         success |-> TRUE, error |-> None, method |-> "trafilatura"]
                 IN  IF metadata.present /\ Truthy(metadata.title)
                     THEN Returned(rec(metadata.title))
                     ELSE IF env.soup.raised THEN Propagated(env.soup.exc)
                     ELSE Returned(rec(env.soup.value))
    IN  IF body.raised /\ IsInstance(body.exc, "Exception")
        THEN Returned([content |-> None, metadata |-> NoMetadata, title |-> None,
                       processing_time |-> ZeroTime, success |-> FALSE,
                       error |-> body.exc.text, method |-> "trafilatura"])
        ELSE body

extract_with_markdownify(html, env) ==
    LET body ==
            IF env.soup.raised THEN Propagated(env.soup.exc)
            ELSE IF env.lib.raised THEN Propagated(env.lib.exc)
            ELSE Returned(Success(MarkdownifyContent(env.lib.value),
                                  env.soup.value, "markdownify"))
    IN  ExceptException(body, "markdownify")

extract_with_html2text(html, env) ==
    LET body ==
            IF env.soup.raised THEN Propagated(env.soup.exc)
            ELSE IF env.lib.raised THEN Propagated(env.lib.exc)
            ELSE Returned(Success(env.lib.value, env.soup.value, "html2text"))
    IN  ExceptException(body, "html2text")

extract_with_beautifulsoup(html, env) ==
    LET body ==
            IF env.soup.raised THEN Propagated(env.soup.exc)
            ELSE Returned(Success(SoupContent(env.text), env.soup.value,
                                  "beautifulsoup"))
    IN  ExceptException(body, "beautifulsoup")

extract_with_simple(html) ==
    LET body ==
            IF ~IsStr(html) THEN Propagated(TypeError)
            ELSE Returned(Success(SimpleContent(html), SimpleTitle(html), "simple"))
    IN  ExceptException(body, "simple")

\* os.unlink(temp_file_path) on the files of the disk
Unlink(files, f, outcome) == IF outcome.raised THEN files ELSE files \ {f}

\* the error text of the fallback record
FallbackError(e) == <<"Pandoc failed, used fallback: ">> \o e.text

\* a variant of PandocFallback whose removal is not in a try of its own
PandocFallbackUnguarded(html, env, files, f, title, pandoc_error) ==
    IF env.unlink2.raised
    THEN [out |-> Propagated(env.unlink2.exc), files |-> files]
    ELSE [out |-> Returned([content |-> FallbackContent(env.text),
                            title |-> title,
                            processing_time |-> Elapsed,
                            success |-> TRUE,
                            error |-> FallbackError(pandoc_error),
                            method |-> "pandoc_fallback"]),
          files |-> files \ {f}]

\* the handler of the inner try, except Exception as pandoc_error: the
\* removal in its own try / except OSError, then the fallback
PandocFallback(html, env, files, f, title, pandoc_error) ==
    LET files2 == Unlink(files, f, env.unlink2)
    IN  IF env.unlink2.raised /\ ~IsInstance(env.unlink2.exc, "OSError")
        THEN [out |-> Propagated(env.unlink2.exc), files |-> files2]
        ELSE IF env.soup.raised
        THEN [out |-> Propagated(env.soup.exc), files |-> files2]
        ELSE [out |-> Returned([content |-> FallbackContent(env.text),
                                title |-> title,
                                processing_time |-> Elapsed,
                                success |-> TRUE,
                                error |-> FallbackError(pandoc_error),
                                method |-> "pandoc_fallback"]),
              files |-> files2]

\* the inner try: the conversion, the removal and the post-processing
PandocInner(html, env, files, f, title) ==
    IF env.lib.raised THEN [out |-> Propagated(env.lib.exc), files |-> files]
    ELSE IF env.unlink1.raised
    THEN [out |-> Propagated(env.unlink1.exc), files |-> files]
    ELSE [out |-> Returned(Success(PandocContent(env.lib.value), title, "pandoc")),
          files |-> Unlink(files, f, env.unlink1)]

\* the inner try with its handler
PandocConvert(html, env, files, f, title) ==
    Bind(PandocInner(html, env, files, f, title),
         LAMBDA inner :
            IF inner.out.raised /\ IsInstance(inner.out.exc, "Exception")
            THEN PandocFallback(html, env, inner.files, f, title, inner.out.exc)
            ELSE inner)

\* the outer try: the title, the temporary file and the inner try
PandocOuter(html, env, files, f) ==
    IF env.soup.raised THEN [out |-> Propagated(env.soup.exc), files |-> files]
    ELSE IF env.tmp.raised THEN [out |-> Propagated(env.tmp.exc), files |-> files]
    ELSE IF ~IsStr(html)
    THEN [out |-> Propagated(TypeError), files |-> files \cup {f}]
    ELSE IF env.write.raised
    THEN [out |-> Propagated(env.write.exc), files |-> files \cup {f}]
    ELSE PandocConvert(html, env, files \cup {f}, f, env.soup.value)

\* _extract_with_pandoc on the disk `files`, f the name of its temporary
\* file: the outcome and the files that exist when it returns
extract_with_pandoc(html, env, files, f) ==
    Bind(PandocOuter(html, env, files, f),
         LAMBDA body : [out |-> ExceptException(body.out, "pandoc"),
                        files |-> body.files])

(***************************************************************************)
(* _invoke: the dispatcher, a generator of messages                        *)
(***************************************************************************)
Recognised == {"trafilatura", "markdownify", "html2text", "pandoc",
               "beautifulsoup", "simple"}

\* tool_parameters.get(key, default)
Get(params, key, default) == IF key \in DOMAIN params THEN params[key] ELSE default

HtmlOf(params) == Get(params, "html_content", <<>>)
MethodOf(params) == Get(params, "conversion_method", "trafilatura")

\* a variant of Dispatch whose else branch falls back to the regex-only routine
DispatchDefaultSimple(conversion_method) ==
    IF conversion_method = "trafilatura" THEN "_extract_with_trafilatura"
    ELSE IF conversion_method = "markdownify" THEN "_extract_with_markdownify"
    ELSE IF conversion_method = "html2text" THEN "_extract_with_html2text"
    ELSE IF conversion_method = "pandoc" THEN "_extract_with_pandoc"
    ELSE IF conversion_method = "beautifulsoup" THEN "_extract_with_beautifulsoup"
    ELSE "_extract_with_simple"

\* a variant of Dispatch with the html2text branch calling the markdownify routine
DispatchSwapped(conversion_method) ==
    IF conversion_method = "trafilatura" THEN "_extract_with_trafilatura"
    ELSE IF conversion_method = "markdownify" THEN "_extract_with_markdownify"
    ELSE IF conversion_method = "html2text" THEN "_extract_with_markdownify"
    ELSE IF conversion_method = "pandoc" THEN "_extract_with_pandoc"
    ELSE IF conversion_method = "beautifulsoup" THEN "_extract_with_beautifulsoup"
    ELSE IF conversion_method = "simple" THEN "_extract_with_simple"
    ELSE "none"

\* the routine the if / elif chain selects, "none" for the else branch
Dispatch(conversion_method) ==
    IF conversion_method = "trafilatura" THEN "_extract_with_trafilatura"
    ELSE IF conversion_method = "markdownify" THEN "_extract_with_markdownify"
    ELSE IF conversion_method = "html2text" THEN "_extract_with_html2text"
    ELSE IF conversion_method = "pandoc" THEN "_extract_with_pandoc"
    ELSE IF conversion_method = "beautifulsoup" THEN "_extract_with_beautifulsoup"
    ELSE IF conversion_method = "simple" THEN "_extract_with_simple"
    ELSE "none"

\* the call of the selected routine: its outcome and the disk after it
Call(routine, html, env, files, f) ==
    IF routine = "_extract_with_pandoc" THEN extract_with_pandoc(html, env, files, f)
    ELSE [out |-> CASE routine = "_extract_with_trafilatura" ->
                        extract_with_trafilatura(html, env)
                    [] routine = "_extract_with_markdownify" ->
                        extract_with_markdownify(html, env)
                    [] routine = "_extract_with_html2text" ->
                        extract_with_html2text(html, env)
                    [] routine = "_extract_with_beautifulsoup" ->
                        extract_with_beautifulsoup(html, env)
                    [] OTHER -> extract_with_simple(html),
          files |-> files]

\* create_text_message and create_json_message
TextMessage(parts) == [type |-> "text", text |-> parts]
JsonMessage(payload) == [type |-> "json", json |-> payload]

NoContentError == <<"Error: No HTML content provided">>

UnknownMethodError(conversion_method) ==
    <<"Error: Unknown conversion method '", conversion_method,
      "'. Supported methods: ", "trafilatura", ", ", "markdownify", ", ",
      "html2text", ", ", "pandoc", ", ", "beautifulsoup", ", ", "simple">>

ConversionError(conversion_method, res) ==
    <<"Error converting HTML to markdown using ", conversion_method, ": ">>
        \o res.error

EmptyWarning(conversion_method) ==
    <<"Warning: ", conversion_method, " produced empty output">>

\* result['content'].count('\n') + 1
LinesCount(content) == Cardinality({i \in 1..Len(content) : content[i] = "\n"}) + 1

ConversionInfo(res) ==
    <<"Method: ", res.method, "\nProcessing time: ", res.processing_time,
      "s\nOutput length: ", ToString(Len(res.content)), " characters\nLines: ",
      ToString(LinesCount(res.content))>>

\* result.get('title') or 'No title found'
TitleOf(res) == IF Truthy(res.title) THEN res.title ELSE <<"No title found">>

StructuredOutput(res) ==
    [markdown |-> res.content, conversion_info |-> ConversionInfo(res),
     title |-> TitleOf(res)]

TextOutput(res) ==
    <<"**Title:** ">> \o TitleOf(res) \o <<"\n\n**Markdown:**\n">> \o res.content
        \o <<"\n\n**Conversion Info:**\n">> \o ConversionInfo(res)

\* a variant of FirstMessage that tests the content before the success flag
FirstMessageContentFirst(conversion_method, res) ==
    IF ~Truthy(res.content)
    THEN [msg |-> TextMessage(EmptyWarning(conversion_method)), pc |-> "yielded_last"]
    ELSE IF ~res.success
    THEN [msg |-> TextMessage(ConversionError(conversion_method, res)),
          pc |-> "yielded_last"]
    ELSE [msg |-> JsonMessage(StructuredOutput(res)), pc |-> "yielded_json"]

\* a variant of FirstMessage without the empty-output warning
FirstMessageNoWarning(conversion_method, res) ==
    IF ~res.success
    THEN [msg |-> TextMessage(ConversionError(conversion_method, res)),
          pc |-> "yielded_last"]
    ELSE [msg |-> JsonMessage(StructuredOutput(res)), pc |-> "yielded_json"]

\* the first message of the generator for a result, and where it then stands:
\* "yielded_last" before a return, "yielded_json" before the text message
FirstMessage(conversion_method, res) ==
    IF ~res.success
    THEN [msg |-> TextMessage(ConversionError(conversion_method, res)),
          pc |-> "yielded_last"]
    ELSE IF ~Truthy(res.content)
    THEN [msg |-> TextMessage(EmptyWarning(conversion_method)), pc |-> "yielded_last"]
    ELSE [msg |-> JsonMessage(StructuredOutput(res)), pc |-> "yielded_json"]

(***************************************************************************)
(* The requests and the environments the model draws                       *)
(***************************************************************************)
\* the requests one run of the host may make
MaxRequests == 2

H1_T == <<"<", "h", "1", ">", "T", "<", "/", "h", "1", ">">>
EMPTY_P == <<"<", "p", ">", "<", "/", "p", ">">>

HtmlValues == {None, <<>>, NonStr, H1_T, EMPTY_P}
MethodValues == Recognised \cup {"docx", "PANDOC"}

\* the parameter dictionaries: either key may be missing
ToolParameters ==
    [html_content : HtmlValues, conversion_method : MethodValues]
        \cup [html_content : HtmlValues]
        \cup [conversion_method : MethodValues]

\* the texts a library call returns
RETURN == <<"r", "e", "t", "u", "r", "n">>
LibTexts == {<<>>, <<"x">>, RETURN, BACKSLASH}

\* the texts soup.get_text() returns in the fallback
FallbackTexts == {<<>>, <<"x">>}

Raises == {Raised(e) : e \in Excs}
OSErrors == {Raised(e) : e \in {x \in Excs : x.cls = "OSError"}}
Done == Ok(<<>>)

\* an invocation without a fault
Calm == [lib |-> Ok(<<"x">>), meta |-> Ok(NoMetadata), soup |-> Ok(None),
         text |-> <<"x">>, tmp |-> Done, write |-> Done, unlink1 |-> Done,
         unlink2 |-> Done]

SoupOutcomes == OSErrors \cup {Ok(None), Ok(<<"T">>)}
MetaOutcomes ==
    Raises \cup {Ok(NoMetadata), Ok(Metadata(None)), Ok(Metadata(<<"T">>))}

\* the environments of one call of a routine
Envs(routine) ==
    CASE routine = "_extract_with_trafilatura" ->
            {[Calm EXCEPT !.lib = l, !.meta = m, !.soup = sp] :
                l \in Raises \cup {Ok(None)} \cup {Ok(t) : t \in LibTexts},
                m \in MetaOutcomes, sp \in SoupOutcomes}
      [] routine \in {"_extract_with_markdownify", "_extract_with_html2text"} ->
            {[Calm EXCEPT !.lib = l, !.soup = sp] :
                l \in Raises \cup {Ok(t) : t \in LibTexts}, sp \in SoupOutcomes}
      [] routine = "_extract_with_beautifulsoup" ->
            {[Calm EXCEPT !.soup = sp, !.text = t] : sp \in SoupOutcomes, t \in LibTexts}
      [] routine = "_extract_with_pandoc" ->
            {[Calm EXCEPT !.lib = l, !.soup = sp, !.text = t, !.tmp = c, !.write = w,
                          !.unlink1 = u1, !.unlink2 = u2] :
                l \in Raises \cup {Ok(x) : x \in LibTexts}, sp \in SoupOutcomes,
                t \in FallbackTexts, c \in OSErrors \cup {Done}, w \in Raises \cup {Done},
                u1 \in OSErrors \cup {Done}, u2 \in OSErrors \cup {Done}}
      [] OTHER -> {Calm}

(***************************************************************************)
(* The dispatcher's actions                                                *)
(***************************************************************************)
NoParameters == [k \in {} |-> <<>>]

DispatchInit ==
    /\ pc = "idle"
    /\ tool_parameters = NoParameters
    /\ calls = <<>>
    /\ messages = <<>>
    /\ result = NoResult
    /\ disk = {}
    /\ requests = 0
    /\ outcomes = Calm

\* the host calls _invoke with an empty or missing html_content: the
\* generator runs to its first yield
InvokeEmpty(params) ==
    /\ pc = "idle"
    /\ requests < MaxRequests
    /\ ~Truthy(HtmlOf(params))
    /\ tool_parameters' = params
    /\ requests' = requests + 1
    /\ calls' = <<>>
    /\ result' = NoResult
    /\ messages' = <<TextMessage(NoContentError)>>
    /\ pc' = "yielded_last"
    /\ UNCHANGED <<disk, outcomes>>

\* the same with a method the if / elif chain does not know
InvokeUnknown(params) ==
    /\ pc = "idle"
    /\ requests < MaxRequests
    /\ Truthy(HtmlOf(params))
    /\ Dispatch(MethodOf(params)) = "none"
    /\ tool_parameters' = params
    /\ requests' = requests + 1
    /\ calls' = <<>>
    /\ result' = NoResult
    /\ messages' = <<TextMessage(UnknownMethodError(MethodOf(params)))>>
    /\ pc' = "yielded_last"
    /\ UNCHANGED <<disk, outcomes>>

\* the same with a method it knows: the routine is called, and the generator
\* yields its first message, or ends with the exception the routine let through
InvokeRoutine(params, env) ==
    /\ pc = "idle"
    /\ requests < MaxRequests
    /\ Truthy(HtmlOf(params))
    /\ Dispatch(MethodOf(params)) # "none"
    /\ \E r \in {Call(Dispatch(MethodOf(params)), HtmlOf(params), env, disk,
                      requests + 1)} :
           /\ calls' = <<Dispatch(MethodOf(params))>>
           /\ disk' = r.files
           /\ result' = r.out.value
           /\ IF r.out.raised
              THEN messages' = <<>> /\ pc' = "crashed"
              ELSE \E first \in {FirstMessage(MethodOf(params), r.out.value)} :
                      messages' = <<first.msg>> /\ pc' = first.pc
    /\ tool_parameters' = params
    /\ requests' = requests + 1
    /\ outcomes' = env

\* the host asks for the next message after the structured payload
ResumeText ==
    /\ pc = "yielded_json"
    /\ messages' = Append(messages, TextMessage(TextOutput(result)))
    /\ pc' = "yielded_last"
    /\ UNCHANGED <<tool_parameters, calls, result, disk, requests, outcomes>>

\* the host asks for the next message after the last one: the generator ends
Finish ==
    /\ pc = "yielded_last"
    /\ pc' = "done"
    /\ UNCHANGED <<tool_parameters, calls, messages, result, disk, requests, outcomes>>

\* the host drops the generator; the next request starts afresh
Close ==
    /\ pc \in {"done", "crashed"}
    /\ pc' = "idle"
    /\ tool_parameters' = NoParameters
    /\ calls' = <<>>
    /\ messages' = <<>>
    /\ result' = NoResult
    /\ outcomes' = Calm
    /\ UNCHANGED <<disk, requests>>

(***************************************************************************)
(* The regex-only routine run on a text and then on its own content        *)
(***************************************************************************)
\* the number of fragments an input text is made of
MaxFragments == 3

\* the fragments of the input texts
SimpleFragments == {
    <<"<", "b", ">">>, <<"<", "/", "b", ">">>, <<"x">>, <<" ">>,
    <<"&", "l", "t", ";">>, <<"&", "g", "t", ";">>,
    <<"&", "a", "m", "p", ";", "a", "m", "p", ";", "l", "t", ";">>,
    <<"<">>, <<">">>}

RECURSIVE Flatten(_)
Flatten(ss) == IF ss = <<>> THEN <<>> ELSE ss[1] \o Flatten(Tail(ss))

\* the texts of at most n fragments
Texts(fragments, n) == {Flatten(ss) : ss \in UNION {[1..k -> fragments] : k \in 0..n}}

SimpleIdle ==
    /\ html_content = <<>>
    /\ simple_pc = "idle"
    /\ content1 = None
    /\ content2 = None

SimpleInit ==
    /\ html_content \in Texts(SimpleFragments, MaxFragments)
    /\ simple_pc = "input"
    /\ content1 = None
    /\ content2 = None

\* _extract_with_simple(html_content)
FirstPass ==
    /\ simple_pc = "input"
    /\ content1' = extract_with_simple(html_content).value.content
    /\ simple_pc' = "pass1"
    /\ UNCHANGED <<html_content, content2>>

\* _extract_with_simple on the content of the first pass
SecondPass ==
    /\ simple_pc = "pass1"
    /\ content2' = extract_with_simple(content1).value.content
    /\ simple_pc' = "pass2"
    /\ UNCHANGED <<html_content, content1>>

(***************************************************************************)
(* The style-preserving routine's post-processing, line by line            *)
(***************************************************************************)
\* the number of lines of a converted text
MaxLines == 5

SAFE == <<"S">>
FENCE_JS == FENCE \o JS
LONG_BLANK == [i \in 1..(LongLine + 1) |-> " "]

\* the lines of the converted texts
MdLines == {FUNCTION_, <<>>, SAFE, LONG_BLANK, FENCE_JS}

MdIdle ==
    /\ md_pc = "idle"
    /\ lines = <<>>
    /\ idx = 1
    /\ skip_block = FALSE
    /\ cleaned_lines = <<>>
    /\ md_result = None

\* lines = result.split("\n") of the text markdownify returned: any
\* sequence of one or more lines
MdInit ==
    /\ md_pc = "filter"
    /\ lines \in UNION {[1..k -> MdLines] : k \in 1..MaxLines}
    /\ idx = 1
    /\ skip_block = FilterInit.skip_block
    /\ cleaned_lines = FilterInit.cleaned_lines
    /\ md_result = None

\* one iteration of `for line in lines`
FilterLine ==
    /\ md_pc = "filter"
    /\ idx <= Len(lines)
    /\ LET st == FilterStep([skip_block |-> skip_block,
                             cleaned_lines |-> cleaned_lines], lines[idx])
       IN  /\ skip_block' = st.skip_block
           /\ cleaned_lines' = st.cleaned_lines
    /\ idx' = idx + 1
    /\ UNCHANGED <<md_pc, lines, md_result>>

\* the code after the loop
Cleanup ==
    /\ md_pc = "filter"
    /\ idx > Len(lines)
    /\ md_result' = MarkdownifyCleanup(cleaned_lines)
    /\ md_pc' = "done"
    /\ UNCHANGED <<lines, idx, skip_block, cleaned_lines>>

(***************************************************************************)
(* The tree routine and the regex-only routine on a document that holds    *)
(* an h1 element                                                           *)
(***************************************************************************)
\* the number of tags and texts before the heading
MaxContext == 2

H1 == <<"h", "1">>

\* the texts of the heading
HeadingTexts == {<<"T">>, <<"A", " ", "b">>}

\* what stands before the heading and what stands after it
Before ==
    {Data(<<"<", " ">>), Data(<<"x">>), OpenTag(<<"n", "o", "s", "c", "r", "i", "p", "t">>),
     OpenTag(H1), OpenTag(<<"p">>), OpenTag(<<"b">>)}
After == {Data(<<">">>), Data(<<"x">>), EndTag(<<"p">>)}

TokenSeqs(S, n) == UNION {[1..k -> S] : k \in 0..n}

\* test_html of test_conversion_methods
TestTokens ==
    << OpenTag(<<"h", "t", "m", "l">>), OpenTag(<<"b", "o", "d", "y">>),
       OpenTag(H1), Data(<<"T", "e", "s", "t">>), EndTag(H1),
       OpenTag(<<"p">>),
       Data(<<"T", "h", "i", "s", " ", "i", "s", " ", "a", " ", "t", "e", "s", "t", ".">>),
       EndTag(<<"p">>),
       EndTag(<<"b", "o", "d", "y">>), EndTag(<<"h", "t", "m", "l">>) >>

HeadingDocuments ==
    {TestTokens} \cup
    {pre \o << OpenTag(H1), Data(t), EndTag(H1) >> \o post :
        pre \in TokenSeqs(Before, MaxContext), t \in HeadingTexts,
        post \in TokenSeqs(After, 1)}

SoupIdle ==
    /\ tokens = <<>>
    /\ soup_pc = "idle"
    /\ soup_result = NoResult

HeadingInit ==
    /\ tokens \in HeadingDocuments
    /\ html_content = WrittenFrom(tokens, 1)
    /\ simple_pc = "input"
    /\ content1 = None
    /\ content2 = None
    /\ soup_pc = "input"
    /\ soup_result = NoResult

\* _extract_with_beautifulsoup(html_content)
SoupExtract ==
    /\ soup_pc = "input"
    /\ soup_result' =
          extract_with_beautifulsoup(
              html_content, [Calm EXCEPT !.text = SoupText(Parse(tokens))]).value
    /\ soup_pc' = "done"
    /\ UNCHANGED tokens

(***************************************************************************)
(* The document converter's routine on the text the converter returns and, *)
(* when the converter raises, on the text the fallback extracts            *)
(***************************************************************************)
\* the number of fragments of a converter output
MaxPieces == 4

\* the number of lines x of an extracted text, besides its first and last
MaxRepeat == 51

PandocFragments == {BACKSLASH, <<"\\", " ">>, <<" ">>, <<"\t">>, NL, <<"x">>}

RECURSIVE Repeat(_, _)
Repeat(unit, n) == IF n = 0 THEN <<>> ELSE unit \o Repeat(unit, n - 1)

\* the texts soup.get_text() returns: a beginning, lines x, an end
ExtractedTexts ==
    {head \o Repeat(<<"x", "\n">>, n) \o last :
        head \in {<<>>, <<" ", "a", " ", "\n">>, <<"\n", "\t", "\n">>},
        n \in 0..MaxRepeat,
        last \in {<<>>, <<"b">>, <<"\n">>}}

PandocInit ==
    /\ pandoc_result = NoResult
    /\ \/ /\ pandoc_pc = "converted"
          /\ markdown_content \in Texts(PandocFragments, MaxPieces)
          /\ fallback_text = None
       \/ /\ pandoc_pc = "failed"
          /\ markdown_content = None
          /\ fallback_text \in ExtractedTexts

\* _extract_with_pandoc(html_content), the converter returning markdown_content
ConvertAndClean ==
    /\ pandoc_pc = "converted"
    /\ pandoc_result' =
          extract_with_pandoc(<<"x">>, [Calm EXCEPT !.lib = Ok(markdown_content)],
                              {}, 1).out.value
    /\ pandoc_pc' = "done"
    /\ UNCHANGED <<markdown_content, fallback_text>>

\* _extract_with_pandoc(html_content), the converter raising and
\* soup.get_text() returning fallback_text
ConvertAndFallBack ==
    /\ pandoc_pc = "failed"
    /\ \E e \in Excs :
          pandoc_result' =
              extract_with_pandoc(<<"x">>,
                                  [Calm EXCEPT !.lib = Raised(e), !.text = fallback_text],
                                  {}, 1).out.value
    /\ pandoc_pc' = "done"
    /\ UNCHANGED <<markdown_content, fallback_text>>

PandocIdle ==
    /\ pandoc_pc = "idle"
    /\ markdown_content = None
    /\ fallback_text = None
    /\ pandoc_result = NoResult

(***************************************************************************)
(* The regex-only routine, one statement after the other                   *)
(***************************************************************************)
\* the number of tags and texts of an input
MaxTags == 3

BR == <<"<", "b", "r", ">">>

TagFragments ==
    {BR, <<"<", "b", ">">>, <<"<", "/", "b", ">">>, <<"<", "p", "r", "e", ">">>,
     <<"<", "/", "p", ">">>, <<"x">>}

\* content = html_content, before the first re.sub
StepInit ==
    /\ step = 1
    /\ step_content \in Texts(TagFragments, MaxTags)

\* the next statement `content = ...` of _extract_with_simple
SimpleStep ==
    /\ step \in 1..Len(SimpleOperations)
    /\ step_content' = Apply(step_content, SimpleOperations[step])
    /\ step' = step + 1

StepIdle ==
    /\ step = 0
    /\ step_content = None

(***************************************************************************)
(* The specifications                                                      *)
(***************************************************************************)
Init == DispatchInit /\ SimpleIdle /\ MdIdle /\ SoupIdle /\ PandocIdle /\ StepIdle

\* the host is between two requests and may make another
Ready == pc = "idle" /\ requests < MaxRequests

Next ==
    \/ /\ Ready
       /\ \E params \in ToolParameters : InvokeEmpty(params)
       /\ UNCHANGED <<simple_vars, md_vars, soup_vars, pandoc_vars, step_vars>>
    \/ /\ Ready
       /\ \E params \in ToolParameters : InvokeUnknown(params)
       /\ UNCHANGED <<simple_vars, md_vars, soup_vars, pandoc_vars, step_vars>>
    \/ /\ Ready
       /\ \E params \in {q \in ToolParameters : Dispatch(MethodOf(q)) # "none"} :
             \E env \in Envs(Dispatch(MethodOf(params))) : InvokeRoutine(params, env)
       /\ UNCHANGED <<simple_vars, md_vars, soup_vars, pandoc_vars, step_vars>>
    \/ ResumeText /\ UNCHANGED <<simple_vars, md_vars, soup_vars, pandoc_vars, step_vars>>
    \/ Finish /\ UNCHANGED <<simple_vars, md_vars, soup_vars, pandoc_vars, step_vars>>
    \/ Close /\ UNCHANGED <<simple_vars, md_vars, soup_vars, pandoc_vars, step_vars>>

Spec == Init /\ [][Next]_vars

InitSimple == DispatchInit /\ SimpleInit /\ MdIdle /\ SoupIdle /\ PandocIdle /\ StepIdle

NextSimple ==
    \/ FirstPass /\ UNCHANGED <<dispatch_vars, md_vars, soup_vars, pandoc_vars, step_vars>>
    \/ SecondPass /\ UNCHANGED <<dispatch_vars, md_vars, soup_vars, pandoc_vars, step_vars>>

SpecSimple == InitSimple /\ [][NextSimple]_vars

InitMarkdownify == DispatchInit /\ SimpleIdle /\ MdInit /\ SoupIdle /\ PandocIdle /\ StepIdle

NextMarkdownify ==
    \/ FilterLine /\ UNCHANGED <<dispatch_vars, simple_vars, soup_vars, pandoc_vars, step_vars>>
    \/ Cleanup /\ UNCHANGED <<dispatch_vars, simple_vars, soup_vars, pandoc_vars, step_vars>>

SpecMarkdownify == InitMarkdownify /\ [][NextMarkdownify]_vars

InitHeading == DispatchInit /\ HeadingInit /\ MdIdle /\ PandocIdle /\ StepIdle

NextHeading ==
    \/ FirstPass /\ UNCHANGED <<dispatch_vars, md_vars, soup_vars, pandoc_vars, step_vars>>
    \/ SoupExtract /\ UNCHANGED <<dispatch_vars, simple_vars, md_vars, pandoc_vars, step_vars>>

SpecHeading == InitHeading /\ [][NextHeading]_vars

InitPandoc == DispatchInit /\ SimpleIdle /\ MdIdle /\ SoupIdle /\ PandocInit /\ StepIdle

NextPandoc ==
    \/ ConvertAndClean /\ UNCHANGED <<dispatch_vars, simple_vars, md_vars, soup_vars, step_vars>>
    \/ ConvertAndFallBack /\ UNCHANGED <<dispatch_vars, simple_vars, md_vars, soup_vars, step_vars>>

SpecPandoc == InitPandoc /\ [][NextPandoc]_vars

InitSteps == DispatchInit /\ SimpleIdle /\ MdIdle /\ SoupIdle /\ PandocIdle /\ StepInit

NextSteps ==
    SimpleStep /\ UNCHANGED <<dispatch_vars, simple_vars, md_vars, soup_vars, pandoc_vars>>

SpecSteps == InitSteps /\ [][NextSteps]_vars

(***************************************************************************)
(* The properties of the dispatcher, checked under Spec                    *)
(***************************************************************************)
\* a request has been made and not yet dropped
Invoked == pc # "idle"

\* the request's html_content is missing, None or the empty text
EmptyHtml ==
    \/ "html_content" \notin DOMAIN tool_parameters
    \/ tool_parameters.html_content \in {None, <<>>}

\* the request's conversion_method, trafilatura when it is missing
RequestedMethod ==
    IF "conversion_method" \in DOMAIN tool_parameters
    THEN tool_parameters.conversion_method
    ELSE "trafilatura"

SixMethods == {"trafilatura", "markdownify", "html2text", "pandoc",
               "beautifulsoup", "simple"}

RoutineOf == [trafilatura |-> "_extract_with_trafilatura",
              markdownify |-> "_extract_with_markdownify",
              html2text |-> "_extract_with_html2text",
              pandoc |-> "_extract_with_pandoc",
              beautifulsoup |-> "_extract_with_beautifulsoup",
              simple |-> "_extract_with_simple"]

\* C1: a request whose html_content is empty or missing is answered, whatever
\* its conversion_method, by exactly one text message with the text
\* 'Error: No HTML content provided', and no conversion routine is invoked.
C1_EmptyHtmlOneError ==
    (Invoked /\ EmptyHtml) =>
        /\ messages = << [type |-> "text",
                          text |-> <<"Error: No HTML content provided">>] >>
        /\ calls = <<>>

\* an answered request without html_content that names a recognised method
C1_Witness ==
    /\ pc = "done"
    /\ "html_content" \notin DOMAIN tool_parameters
    /\ RequestedMethod = "pandoc"
    /\ Len(messages) = 1

\* C2: a request with non-empty html_content and a conversion_method that is
\* none of the six recognised names is answered by exactly one text message
\* that lists the six names, and no conversion routine is invoked.
C2_UnknownMethodOneError ==
    (Invoked /\ ~EmptyHtml /\ RequestedMethod \notin SixMethods) =>
        /\ Len(messages) = 1
        /\ messages[1].type = "text"
        /\ \A m \in SixMethods :
              \E i \in DOMAIN messages[1].text : messages[1].text[i] = m
        /\ calls = <<>>

\* an answered request for the method PANDOC, which differs from pandoc
\* only by its case
C2_Witness ==
    /\ pc = "done"
    /\ ~EmptyHtml
    /\ RequestedMethod = "PANDOC"
    /\ Len(messages) = 1

\* C3: a request with non-empty html_content and a recognised
\* conversion_method invokes exactly one routine, once, the one that matches
\* the method, and none after it, also when the result is a failure or empty.
C3_ExactlyTheMatchingRoutine ==
    (Invoked /\ ~EmptyHtml /\ RequestedMethod \in SixMethods) =>
        calls = <<RoutineOf[RequestedMethod]>>

\* a finished html2text request whose routine returned a failure record
C3_Witness ==
    /\ pc = "done"
    /\ RequestedMethod = "html2text"
    /\ calls = <<"_extract_with_html2text">>
    /\ ~result.success

OneTextMessage == Len(messages) = 1 /\ messages[1].type = "text"

TwoMessages ==
    /\ Len(messages) = 2
    /\ messages[1].type = "json"
    /\ DOMAIN messages[1].json = {"markdown", "conversion_info", "title"}
    /\ messages[2].type = "text"

\* C4: a request's messages are either exactly one text message, or exactly
\* two messages, the structured payload with the keys markdown,
\* conversion_info and title and then the text message; they are two exactly
\* when the routine's result has success = true and non-empty content; before
\* the second message only the payload has been emitted, and nothing follows
\* the last message.
C4_MessageShapes ==
    /\ pc \in {"yielded_last", "done", "crashed"} =>
          /\ OneTextMessage \/ TwoMessages
          /\ TwoMessages <=> (result.success /\ result.content \notin {None, <<>>})
    /\ pc = "yielded_json" =>
          /\ Len(messages) = 1
          /\ messages[1].type = "json"
          /\ result.success /\ result.content \notin {None, <<>>}

\* a finished request whose routine succeeded with an empty content: one
\* warning and no payload
C4_Witness ==
    /\ pc = "done"
    /\ result.success
    /\ result.content = <<>>
    /\ OneTextMessage

\* the request's html_content is a text and the converter was called and raised
ConverterRaised ==
    /\ calls = <<"_extract_with_pandoc">>
    /\ tool_parameters.html_content # NonStr
    /\ ~outcomes.soup.raised
    /\ ~outcomes.tmp.raised
    /\ ~outcomes.write.raised
    /\ outcomes.lib.raised

\* C5: once _extract_with_pandoc has returned, on every exit path, the
\* temporary file created for the request is not on disk.
C5_NoTemporaryFileRemains ==
    (Invoked /\ calls = <<"_extract_with_pandoc">>) => requests \notin disk

\* C6: when the external converter raises, _extract_with_pandoc returns a
\* record with success = true, the method pandoc_fallback and a non-empty
\* error that carries the exception's text; never a failure record.
C6_ConverterFailureFallsBack ==
    (Invoked /\ ConverterRaised) =>
        /\ result.success
        /\ result.method = "pandoc_fallback"
        /\ result.error = <<"Pandoc failed, used fallback: ">> \o outcomes.lib.exc.text
        /\ Len(result.error) > 0

\* the converter raised and the removal of the temporary file failed too
C6_Witness ==
    /\ pc = "done"
    /\ ConverterRaised
    /\ outcomes.unlink2.raised
    /\ result.method = "pandoc_fallback"

\* C7: every record a conversion routine returns with success = false has
\* the content None.
C7_FailureHasNoContent ==
    (Invoked /\ calls # <<>>) => (~result.success => result.content = None)

\* a markdownify request whose library call raised
C7_Witness ==
    /\ pc = "done"
    /\ calls = <<"_extract_with_markdownify">>
    /\ outcomes.lib.raised
    /\ ~result.success

\* the texts of the exceptions a routine can meet
FaultTexts == {e.text : e \in Excs \cup {TypeError}}

\* C8: every conversion routine returns a record whatever the library calls
\* and its own processing do: no exception reaches the dispatcher, and a
\* record with success = false carries the exception's text as its error.
C8_RoutinesNeverRaise ==
    /\ pc # "crashed"
    /\ (Invoked /\ calls # <<>>) =>
          /\ result.method \in SixMethods \cup {"pandoc_fallback"}
          /\ ~result.success => result.error \in FaultTexts

\* the regex-only routine given a value that is not a text: its own
\* processing raises, and it returns the failure record
C8_Witness ==
    /\ pc = "done"
    /\ calls = <<"_extract_with_simple">>
    /\ tool_parameters.html_content = NonStr
    /\ ~result.success
    /\ result.error = TypeError.text

\* C11: a result with success = false is answered by one error message that
\* holds the requested method's name and the result's error text; a result
\* with success = true and a content that is None or empty by one warning
\* message; the success test comes first (a failure record, whose content is
\* None, gets the error), and neither case emits a structured payload.
C11_ErrorBeforeWarning ==
    (Invoked /\ calls # <<>>) =>
        /\ ~result.success =>
              messages = << [type |-> "text",
                             text |-> <<"Error converting HTML to markdown using ",
                                        RequestedMethod, ": ">> \o result.error] >>
        /\ (result.success /\ result.content \in {None, <<>>}) =>
              messages = << [type |-> "text",
                             text |-> <<"Warning: ", RequestedMethod,
                                        " produced empty output">>] >>

\* a finished request whose routine returned a failure record with the
\* content None and a non-empty error text
C11_Witness ==
    /\ pc = "done"
    /\ calls = <<"_extract_with_beautifulsoup">>
    /\ ~result.success
    /\ result.content = None
    /\ result.error = <<"Permission denied">>
    /\ Len(messages) = 1

\* the converter returned and the removal of the temporary file that
\* follows it failed
RemovalFailedAfterConversion ==
    /\ calls = <<"_extract_with_pandoc">>
    /\ tool_parameters.html_content # NonStr
    /\ ~outcomes.soup.raised
    /\ ~outcomes.tmp.raised
    /\ ~outcomes.write.raised
    /\ ~outcomes.lib.raised
    /\ outcomes.unlink1.raised

\* C14: when the converter succeeded and the removal of the temporary file
\* then fails, _extract_with_pandoc returns the record it returns when the
\* removal succeeds: the post-processed output of the converter with
\* success = true, the method pandoc and the error None.
C14_RemovalFailureIgnored ==
    (Invoked /\ RemovalFailedAfterConversion) =>
        /\ result.success
        /\ result.method = "pandoc"
        /\ result.error = None
        /\ result.content = PandocContent(outcomes.lib.value)

(***************************************************************************)
(* The property of the post-processing loop, checked under SpecMarkdownify *)
(***************************************************************************)
\* line i contains function(, line i + 1 is blank, and line i + 2 has none
\* of the fifteen substrings, no code-fence marker and at most 500 characters
SkipThenBlankThenSafe(i) ==
    /\ i + 2 <= Len(lines)
    /\ Contains(lines[i], FUNCTION_)
    /\ IsBlank(lines[i + 1])
    /\ ~LooksLikeJs(lines[i + 2])
    /\ ~Contains(lines[i + 2], FENCE)
    /\ Len(lines[i + 2]) <= LongLine

LineDroppedNextKept(i) ==
    /\ ~Contains(md_result, lines[i])
    /\ Contains(md_result, lines[i + 2])

\* C9 as stated: whenever a line with function( is followed by a blank line
\* and then by such a line L, the output lacks the function( line and
\* contains L.
C9_AsStated ==
    md_pc = "done" =>
        \A i \in 1..Len(lines) : SkipThenBlankThenSafe(i) => LineDroppedNextKept(i)

\* C9: the same when moreover the blank line has at most 500 characters and
\* no line of the converted text contains a code-fence marker.
C9_BlankLineEndsSkipping ==
    md_pc = "done" =>
        \A i \in 1..Len(lines) :
            (/\ SkipThenBlankThenSafe(i)
             /\ Len(lines[i + 1]) <= LongLine
             /\ \A j \in 1..Len(lines) : ~Contains(lines[j], FENCE))
                => LineDroppedNextKept(i)

\* the converted text function( / blank / S, with S in the output
C9_Witness ==
    /\ md_pc = "done"
    /\ lines = <<FUNCTION_, <<>>, SAFE>>
    /\ Contains(md_result, SAFE)
    /\ ~Contains(md_result, FUNCTION_)

(***************************************************************************)
(* The property of the regex-only routine, checked under SpecSimple        *)
(***************************************************************************)
\* the complete tags of a text: <, one or more characters other than >, >
TagsOf(s) ==
    {SubSeq(s, i, j) : <<i, j>> \in
        {ij \in (1..Len(s)) \X (1..Len(s)) :
            /\ s[ij[1]] = "<"
            /\ ij[2] > ij[1] + 1
            /\ s[ij[2]] = ">"
            /\ \A k \in (ij[1] + 1)..(ij[2] - 1) : s[k] # ">"}}

HasChar(s, c) == \E k \in 1..Len(s) : s[k] = c

\* C10 as stated: the content of the second pass has no < and no >, and no
\* tag that the content of the first pass does not have.
C10_AsStated ==
    simple_pc = "pass2" =>
        /\ ~HasChar(content2, "<")
        /\ ~HasChar(content2, ">")
        /\ TagsOf(content2) \subseteq TagsOf(content1)

\* C10: when the content of the first pass has no & character, the content
\* of the second pass has no complete tag, so that the second pass
\* introduces none.
C10_SecondPassLeavesNoTag ==
    (simple_pc = "pass2" /\ ~HasChar(content1, "&")) => TagsOf(content2) = {}

\* a first pass whose content has a complete tag (decoded from entities)
\* and no &, which the second pass then removes
C10_Witness ==
    /\ simple_pc = "pass2"
    /\ ~HasChar(content1, "&")
    /\ TagsOf(content1) # {}
    /\ TagsOf(content2) = {}

(***************************************************************************)
(* The property of the headings, checked under SpecHeading                 *)
(***************************************************************************)
\* the text is not empty and has no tag, no entity and no repeated space
PlainText(t) ==
    /\ t # <<>>
    /\ ~HasChar(t, "<")
    /\ ~HasChar(t, "&")
    /\ ~Contains(t, <<" ", " ">>)

\* the document has, at its k-th token, an h1 element whose text is plain,
\* and no script or style block begins before it
HeadingAt(k) ==
    /\ k + 2 <= Len(tokens)
    /\ tokens[k] = OpenTag(H1)
    /\ tokens[k + 1].kind = "data"
    /\ PlainText(tokens[k + 1].text)
    /\ tokens[k + 2] = EndTag(H1)
    /\ \A j \in 1..(k - 1) : tokens[j].name \notin {SCRIPT, STYLE}

\* the content has the heading's mark followed by its text
Marked(c, t) == c # None /\ Contains(c, <<"#", " ">> \o t)

\* both routines, once they have run, have succeeded with the heading's line
BothMark(t) ==
    /\ simple_pc = "pass1" =>
          /\ extract_with_simple(html_content).value.success
          /\ Marked(content1, t)
    /\ soup_pc = "done" =>
          /\ soup_result.success
          /\ Marked(soup_result.content, t)

PlainElements ==
    {<<"h", "t", "m", "l">>, <<"b", "o", "d", "y">>, <<"d", "i", "v">>, <<"p">>,
     STRONG, <<"b">>, <<"e", "m">>, <<"i">>, CODE, PRE, <<"a">>}
        \cup {HeadingName(n) : n \in 2..6}

\* a text without < and >, or a tag of one of the plain elements
PlainToken(tok) ==
    \/ tok.kind = "data" /\ ~HasChar(tok.text, "<") /\ ~HasChar(tok.text, ">")
    \/ tok.kind \in {"open", "close"} /\ tok.name \in PlainElements

\* the heading's text has, besides, no >, no line break and no white space
\* at its ends
TrimmedLine(t) ==
    /\ PlainText(t)
    /\ ~HasChar(t, ">")
    /\ ~HasChar(t, "\n")
    /\ ~IsSpace(t[1])
    /\ ~IsSpace(t[Len(t)])

Trigger(line) == Len(line) > LongLine \/ LooksLikeJs(line)

\* the line consists only of white space
WhitespaceOnly(line) == \A k \in 1..Len(line) : IsSpace(line[k])

\* the step is an iteration of the loop, on the line lines[idx]
Iteration == md_pc = "filter" /\ idx <= Len(lines) /\ idx' = idx + 1

\* a trigger line is dropped and turns skip mode on; in skip mode a line
\* that is neither a trigger nor blank is dropped and leaves skip mode on;
\* a line that is no trigger is kept when skip mode is off after it; a line
\* is appended to the kept lines or dropped, so the kept lines keep their
\* order
DropsAndKeeps(line, trigger, blank) ==
    /\ trigger => skip_block' /\ cleaned_lines' = cleaned_lines
    /\ (skip_block /\ ~trigger /\ ~blank) => skip_block' /\ cleaned_lines' = cleaned_lines
    /\ (~trigger /\ ~skip_block') => cleaned_lines' = Append(cleaned_lines, line)
    /\ cleaned_lines' \in {cleaned_lines, Append(cleaned_lines, line)}

\* C13 as stated: in every iteration of the line filter a trigger line is
\* dropped and turns skip mode on, skip mode drops the lines that follow,
\* every line of white space only turns skip mode off, the first line after
\* it that is no trigger is kept, and the kept lines keep their order.
C13_AsStated ==
    [][Iteration =>
          LET line == lines[idx]
              trigger == Trigger(line)
              blank == WhitespaceOnly(line)
          IN  /\ DropsAndKeeps(line, trigger, blank)
              /\ blank => ~skip_block']_vars

\* C13: the same, skip mode being turned off by every line of white space
\* only that has at most 500 characters; a longer one is a trigger line.
C13_ShortBlankLineClearsSkip ==
    [][Iteration =>
          LET line == lines[idx]
              trigger == Trigger(line)
              blank == WhitespaceOnly(line)
          IN  /\ DropsAndKeeps(line, trigger, blank)
              /\ (blank /\ Len(line) <= LongLine) => ~skip_block']_vars

\* a long line, a blank line and S have been filtered: S is kept
C13_Witness ==
    /\ md_pc = "filter"
    /\ idx = 4
    /\ SubSeq(lines, 1, 3) = <<LONG_BLANK, <<>>, SAFE>>
    /\ cleaned_lines = << <<>>, SAFE >>
    /\ ~skip_block

(***************************************************************************)
(* The properties of the document converter's routine, checked under       *)
(* SpecPandoc                                                              *)
(***************************************************************************)
\* the routine has returned the record of its success path
Converted == pandoc_pc = "done" /\ pandoc_result.method = "pandoc"

\* the routine has returned the record of its fallback
FellBack == pandoc_pc = "done" /\ pandoc_result.method = "pandoc_fallback"

EndsIn(line, c) == line # <<>> /\ line[Len(line)] = c

\* no line is a single backslash and none ends in a space or a backslash
CleanLines(ls) ==
    \A i \in 1..Len(ls) :
        /\ ls[i] # BACKSLASH
        /\ ~EndsIn(ls[i], " ")
        /\ ~EndsIn(ls[i], "\\")

\* C15 as stated: the content of the success path has no line that is a
\* single backslash, no line that ends in a space or a backslash, no two
\* consecutive lines of white space only, and no three newlines in a row.
C15_AsStated ==
    Converted =>
        LET ls == Split(pandoc_result.content)
        IN  /\ CleanLines(ls)
            /\ \A i \in 1..(Len(ls) - 1) :
                  ~(WhitespaceOnly(ls[i]) /\ WhitespaceOnly(ls[i + 1]))
            /\ ~Contains(pandoc_result.content, <<"\n", "\n", "\n">>)

\* C15: the content of the success path has no line that is a single
\* backslash, no line that ends in a space or a backslash, no two
\* consecutive empty lines, and so no three newlines in a row.
C15_LineNormalForm ==
    Converted =>
        LET ls == Split(pandoc_result.content)
        IN  /\ CleanLines(ls)
            /\ \A i \in 1..(Len(ls) - 1) : ~(ls[i] = <<>> /\ ls[i + 1] = <<>>)
            /\ ~Contains(pandoc_result.content, <<"\n", "\n", "\n">>)

\* a line that ends in a backslash and two empty lines have become x and
\* one empty line
C15_Witness ==
    /\ Converted
    /\ markdown_content = <<"x", "\\", "\n", "\n">>
    /\ pandoc_result.content = <<"x", "\n">>

\* C16 as stated: the content of the success path has no backslash before a
\* newline, no backslash before a space and no two spaces in a row.
C16_AsStated ==
    Converted =>
        /\ ~Contains(pandoc_result.content, <<"\\", "\n">>)
        /\ ~Contains(pandoc_result.content, <<"\\", " ">>)
        /\ ~Contains(pandoc_result.content, <<" ", " ">>)

\* C16: the content of the success path has no backslash before a newline
\* and no two spaces in a row, and no backslash before a space when the
\* converter's output has no two backslashes in a row.
C16_NoEscapedBreaks ==
    Converted =>
        /\ ~Contains(pandoc_result.content, <<"\\", "\n">>)
        /\ ~Contains(pandoc_result.content, <<" ", " ">>)
        /\ ~Contains(markdown_content, <<"\\", "\\">>) =>
              ~Contains(pandoc_result.content, <<"\\", " ">>)

\* an escaped space before a space has become one space
C16_Witness ==
    /\ Converted
    /\ markdown_content = <<"x", "\\", " ", " ", "x">>
    /\ pandoc_result.content = <<"x", " ", "x">>

\* the indices of the lines that have more than white space
NonBlank(ls) == {i \in 1..Len(ls) : ~WhitespaceOnly(ls[i])}

\* the j-th element of a set of numbers
Nth(K, j) == CHOOSE i \in K : Cardinality({k \in K : k <= i}) = j

\* the first n lines of ls that have more than white space, each trimmed,
\* with an empty line between two of them
TrimmedLines(ls, n) ==
    LET K == NonBlank(ls)
    IN  [j \in 1..(2 * n - 1) |->
            IF j % 2 = 1 THEN Strip(ls[Nth(K, (j + 1) \div 2)]) ELSE <<>>]

\* C17: the content of the fallback is made of the first 50 lines of the
\* extracted text that are not blank (all of them when there are fewer),
\* each trimmed, in their order, with one empty line between two of them:
\* it has at most 50 lines that are not blank and no blank line at its
\* start or its end.
C17_FallbackKeepsFiftyLines ==
    FellBack =>
        LET ls == Split(fallback_text)
            n == Min({Cardinality(NonBlank(ls)), 50})
            out == Split(pandoc_result.content)
        IN  /\ n = 0 => pandoc_result.content = <<>>
            /\ n > 0 =>
                  /\ out = TrimmedLines(ls, n)
                  /\ Cardinality(NonBlank(out)) <= 50
                  /\ ~WhitespaceOnly(out[1])
                  /\ ~WhitespaceOnly(out[Len(out)])

\* the extracted text has 53 lines that are not blank: the content has the
\* first 50 of them, from a to the 49th x
C17_Witness ==
    /\ FellBack
    /\ fallback_text = <<" ", "a", " ", "\n">> \o Repeat(<<"x", "\n">>, 51) \o <<"b">>
    /\ Len(Split(pandoc_result.content)) = 99
    /\ SubSeq(pandoc_result.content, 1, 4) = <<"a", "\n", "\n", "x">>
    /\ EndsIn(pandoc_result.content, "x")

(***************************************************************************)
(* The property of the regex-only routine's statements, checked under      *)
(* SpecSteps                                                               *)
(***************************************************************************)
\* the number of places of s where sub stands
CountOf(s, sub) == Cardinality({i \in 1..Len(s) : MatchAt(s, i, sub)})

\* the step is a statement of the routine
Statement == step \in 1..Len(SimpleOperations) /\ step' = step + 1

\* the bold, italic, anchor, paragraph and list-item substitutions
PrefixNamed(op) ==
    \/ op.kind = "anchor"
    \/ /\ op.kind = "pair"
       /\ op.names \in {<< STRONG, <<"b">> >>, << <<"e", "m">>, <<"i">> >>,
                        << <<"p">> >>, << <<"l", "i">> >>}

\* the opening tags whose names begin with the letters of another element
ForeignTags ==
    {BR, <<"<", "b", "o", "d", "y", ">">>, <<"<", "i", "m", "g", ">">>,
     <<"<", "i", "f", "r", "a", "m", "e", ">">>, <<"<", "e", "m", "b", "e", "d", ">">>,
     <<"<", "p", "r", "e", ">">>, <<"<", "l", "i", "n", "k", ">">>}

\* C18: every statement takes only the tags of its element: the bold,
\* italic, anchor, paragraph and list-item substitutions leave the tags br,
\* body, img, iframe, embed, pre and link in place; the substitutions from
\* the headings to the paragraphs leave every <br> in place; and the
\* line-break substitution replaces each <br> by a newline.
C18_SubstitutionsTakeOnlyTheirTags ==
    [][Statement =>
          LET op == SimpleOperations[step]
              brs == CountOf(step_content, BR)
          IN  /\ PrefixNamed(op) =>
                    \A t \in ForeignTags : CountOf(step_content', t) = CountOf(step_content, t)
              /\ (step > 2 /\ op.kind # "br" /\ op.kind # "anytag" /\ brs > 0) =>
                    CountOf(step_content', BR) = brs
              /\ op.kind = "br" =>
                    /\ CountOf(step_content', BR) = 0
                    /\ CountOf(step_content', NL) = CountOf(step_content, NL) + brs]_vars
====
